---- MODULE Spec2Model ----
(***************************************************************************)
(* Model of src/src/connection.c: the readiness handler conn_fd_handler    *)
(* and the poll reconciler conn_set_polling of one connection on one fd.   *)
(*                                                                         *)
(* conn->flags and fdtab[fd].ev are bit sets in the source; here a bit set *)
(* is the set of the names of its bits, so that  a & m  is  a \cap m,      *)
(* a | m  is  a \cup m,  a & ~m  is  a \ m  and  (a & m) == m  is          *)
(* m \subseteq a.                                                          *)
(***************************************************************************)
EXTENDS Integers, Sequences, FiniteSets

VARIABLES
    owner,      \* fdtab[fd].owner != NULL: the connection exists and owns fd
    flags,      \* conn->flags
    ev,         \* fdtab[fd].ev
    want,       \* the interest the upper layers and sub-handlers currently
                \* request, as CO_FL_CURR_* bit names: the argument that
                \* conn_cond_update_polling hands to conn_set_polling
    pc,         \* position of conn_fd_handler ("idle": not running)
    ret,        \* which return statement ended the last invocation
    log,        \* what the current / last invocation did, in order
    reraise,    \* how often callbacks re-raised CO_FL_HANDSHAKE in this cycle
    \* what SpecPoll, the reconciler called on its own, records of its calls
    lastOld,    \* c->flags at entry of the last conn_set_polling call
    lastNew,    \* its argument <new>
    lastCalls,  \* the fd_* calls it issued, in order
    rdNet,      \* #fd_want_recv + #fd_poll_recv - #fd_stop_recv so far
    wrNet,      \* #fd_want_send + #fd_poll_send - #fd_stop_send so far
    rdEnaNet,   \* as rdNet, counting only the fd_poll_recv issued with RD_ENA clear
    wrEnaNet    \* as wrNet, counting only the fd_poll_send issued with WR_ENA clear

vars == <<owner, flags, ev, want, pc, ret, log, reraise,
          lastOld, lastNew, lastCalls, rdNet, wrNet, rdEnaNet, wrEnaNet>>

pollVars == <<lastOld, lastNew, lastCalls, rdNet, wrNet, rdEnaNet, wrEnaNet>>

----------------------------------------------------------------------------
(* Bounds *)

\* cap of the call counters rdNet and wrNet
MaxNet == 2
\* how often the callbacks of one cycle may re-raise CO_FL_HANDSHAKE
MaxReraise == 1

----------------------------------------------------------------------------
(* Flag model *)

CO_FL_CURR_RD_ENA == "CURR_RD_ENA"
CO_FL_CURR_RD_POL == "CURR_RD_POL"
CO_FL_CURR_WR_ENA == "CURR_WR_ENA"
CO_FL_CURR_WR_POL == "CURR_WR_POL"
CO_FL_ERROR == "ERROR"
CO_FL_CONNECTED == "CONNECTED"
CO_FL_WAIT_L4_CONN == "WAIT_L4_CONN"
CO_FL_WAIT_L6_CONN == "WAIT_L6_CONN"
CO_FL_INIT_SESS == "INIT_SESS"
CO_FL_NOTIFY_SI == "NOTIFY_SI"
CO_FL_POLL_SOCK == "POLL_SOCK"
CO_FL_ACCEPT_PROXY == "ACCEPT_PROXY"
CO_FL_SI_SEND_PROXY == "SI_SEND_PROXY"

\* the composite handshake mask: the handshake kinds the dispatcher knows
CO_FL_HANDSHAKE == {CO_FL_ACCEPT_PROXY, CO_FL_SI_SEND_PROXY}

RdPair == {CO_FL_CURR_RD_ENA, CO_FL_CURR_RD_POL}
WrPair == {CO_FL_CURR_WR_ENA, CO_FL_CURR_WR_POL}
CurrMask == RdPair \cup WrPair

AllFlags == CurrMask \cup CO_FL_HANDSHAKE \cup
            {CO_FL_ERROR, CO_FL_CONNECTED, CO_FL_WAIT_L4_CONN, CO_FL_WAIT_L6_CONN,
             CO_FL_INIT_SESS, CO_FL_NOTIFY_SI, CO_FL_POLL_SOCK}

FD_POLL_IN == "IN"
FD_POLL_OUT == "OUT"
FD_POLL_HUP == "HUP"
FD_POLL_ERR == "ERR"
PollBits == {FD_POLL_IN, FD_POLL_OUT, FD_POLL_HUP, FD_POLL_ERR}

----------------------------------------------------------------------------
(* Poll reconciler: conn_set_polling *)

\* RdCall with the test of <old> dropped from its first branch
RdCallAlwaysPoll(old, new) ==
    IF RdPair \subseteq new THEN <<"fd_poll_recv">>
    ELSE IF CO_FL_CURR_RD_ENA \notin old /\ CO_FL_CURR_RD_ENA \in new THEN <<"fd_want_recv">>
    ELSE IF CO_FL_CURR_RD_ENA \in old /\ CO_FL_CURR_RD_ENA \notin new THEN <<"fd_stop_recv">>
    ELSE << >>

\* RdCall with the RD_ENA edges tested before the transition to 11
RdCallWantFirst(old, new) ==
    IF CO_FL_CURR_RD_ENA \notin old /\ CO_FL_CURR_RD_ENA \in new THEN <<"fd_want_recv">>
    ELSE IF CO_FL_CURR_RD_ENA \in old /\ CO_FL_CURR_RD_ENA \notin new THEN <<"fd_stop_recv">>
    ELSE IF ~(RdPair \subseteq old) /\ RdPair \subseteq new THEN <<"fd_poll_recv">>
    ELSE << >>

\* RdCall with the test of <old> dropped from its second branch
RdCallWantNoEdge(old, new) ==
    IF ~(RdPair \subseteq old) /\ RdPair \subseteq new THEN <<"fd_poll_recv">>
    ELSE IF CO_FL_CURR_RD_ENA \in new THEN <<"fd_want_recv">>
    ELSE IF CO_FL_CURR_RD_ENA \in old /\ CO_FL_CURR_RD_ENA \notin new THEN <<"fd_stop_recv">>
    ELSE << >>

\* RdCall whose third branch tests the whole pair of <new> instead of RD_ENA
RdCallStopOnPair(old, new) ==
    IF ~(RdPair \subseteq old) /\ RdPair \subseteq new THEN <<"fd_poll_recv">>
    ELSE IF CO_FL_CURR_RD_ENA \notin old /\ CO_FL_CURR_RD_ENA \in new THEN <<"fd_want_recv">>
    ELSE IF CO_FL_CURR_RD_ENA \in old /\ new \cap RdPair = {} THEN <<"fd_stop_recv">>
    ELSE << >>

\* "update read status if needed": the call the read side issues
RdCall(old, new) ==
    IF ~(RdPair \subseteq old) /\ RdPair \subseteq new THEN <<"fd_poll_recv">>
    ELSE IF CO_FL_CURR_RD_ENA \notin old /\ CO_FL_CURR_RD_ENA \in new THEN <<"fd_want_recv">>
    ELSE IF CO_FL_CURR_RD_ENA \in old /\ CO_FL_CURR_RD_ENA \notin new THEN <<"fd_stop_recv">>
    ELSE << >>

\* WrCall whose third branch tests the whole pair of <old> instead of WR_ENA
WrCallStopFromPoll(old, new) ==
    IF ~(WrPair \subseteq old) /\ WrPair \subseteq new THEN <<"fd_poll_send">>
    ELSE IF CO_FL_CURR_WR_ENA \notin old /\ CO_FL_CURR_WR_ENA \in new THEN <<"fd_want_send">>
    ELSE IF WrPair \subseteq old /\ CO_FL_CURR_WR_ENA \notin new THEN <<"fd_stop_send">>
    ELSE << >>

\* "update write status if needed": the call the write side issues
WrCall(old, new) ==
    IF ~(WrPair \subseteq old) /\ WrPair \subseteq new THEN <<"fd_poll_send">>
    ELSE IF CO_FL_CURR_WR_ENA \notin old /\ CO_FL_CURR_WR_ENA \in new THEN <<"fd_want_send">>
    ELSE IF CO_FL_CURR_WR_ENA \in old /\ CO_FL_CURR_WR_ENA \notin new THEN <<"fd_stop_send">>
    ELSE << >>

\* the fd_* calls of one conn_set_polling(c, new), c->flags being old
SetPollingCalls(old, new) == RdCall(old, new) \o WrCall(old, new)

\* SetPollingFlags without the mask on <new>
SetPollingFlagsUnmasked(old, new) == (old \ CurrMask) \cup new

\* SetPollingFlags assigning the flags instead of or-ing into them
SetPollingFlagsAssign(old, new) == new \cap CurrMask

\* SetPollingFlags without its second statement
SetPollingFlagsNoCommit(old, new) == old \ CurrMask

\* c->flags after conn_set_polling(c, new)
SetPollingFlags(old, new) == (old \ CurrMask) \cup (new \cap CurrMask)

\* calls of the sequence <calls> that are among <names>
CountOf(calls, names) == Len(SelectSeq(calls, LAMBDA c : c \in names))

\* conn_set_polling(c, new): issue the calls, then commit the CURR bits
conn_set_polling(new) ==
    LET calls == SetPollingCalls(flags, new)
        rdUp  == CountOf(calls, {"fd_want_recv", "fd_poll_recv"})
        wrUp  == CountOf(calls, {"fd_want_send", "fd_poll_send"})
        rdDn  == CountOf(calls, {"fd_stop_recv"})
        wrDn  == CountOf(calls, {"fd_stop_send"})
        rdOn  == IF CO_FL_CURR_RD_ENA \in flags THEN 0 ELSE rdUp
        wrOn  == IF CO_FL_CURR_WR_ENA \in flags THEN 0 ELSE wrUp
    IN  /\ rdNet + rdUp - rdDn <= MaxNet
        /\ wrNet + wrUp - wrDn <= MaxNet
        /\ lastOld' = flags
        /\ lastNew' = new
        /\ lastCalls' = calls
        /\ flags' = SetPollingFlags(flags, new)
        /\ rdNet' = rdNet + rdUp - rdDn
        /\ wrNet' = wrNet + wrUp - wrDn
        /\ rdEnaNet' = rdEnaNet + rdOn - rdDn
        /\ wrEnaNet' = wrEnaNet + wrOn - wrDn

----------------------------------------------------------------------------
(* The reconciler on its own: any sequence of conn_set_polling calls *)

\* the bits of c->flags outside the CURR group when the calls start
PollFrames == {{}, {CO_FL_ERROR, CO_FL_INIT_SESS, CO_FL_ACCEPT_PROXY},
               AllFlags \ CurrMask}

\* the arguments <new>: every CURR combination, alone or with other bits set
NewArgs == {c \cup x : c \in SUBSET CurrMask, x \in {{}, AllFlags \ CurrMask}}

InitPoll ==
    /\ owner = TRUE
    /\ flags \in PollFrames
    /\ ev = {}
    /\ want = {}
    /\ pc = "idle"
    /\ ret = "none"
    /\ log = << >>
    /\ reraise = 0
    /\ lastOld = flags
    /\ lastNew = {}
    /\ lastCalls = << >>
    /\ rdNet = 0
    /\ wrNet = 0
    /\ rdEnaNet = 0
    /\ wrEnaNet = 0

\* a caller (conn_update_data_polling, conn_update_sock_polling, ...) calls
\* conn_set_polling with some <new>
SetPollingCall ==
    /\ \E new \in NewArgs : conn_set_polling(new)
    /\ UNCHANGED <<owner, ev, want, pc, ret, log, reraise>>

NextPoll == SetPollingCall

SpecPoll == InitPoll /\ [][NextPoll]_vars

----------------------------------------------------------------------------
(* External collaborators of conn_fd_handler, by their contracts.          *)
(* Each gives the set of outcomes [done, flags, want] of one call made     *)
(* with c->flags = f and requested interest w.                             *)

Outcome(d, f, w) == [done |-> d, flags |-> f, want |-> w]

\* the interest a caller may request for one direction, <pair> being RdPair
\* or WrPair: absent, want (ENA) or poll (ENA and POL)
PairStates(pair) == {{}, pair \cap {CO_FL_CURR_RD_ENA, CO_FL_CURR_WR_ENA}, pair}

\* conn_recv_proxy(conn, CO_FL_ACCEPT_PROXY): done and its bit cleared; or
\* not done and waiting for more bytes to read; or not done and failed
RecvProxyOutcomes(f, w) ==
    {Outcome(TRUE, f \ {CO_FL_ACCEPT_PROXY}, w)}
    \cup {Outcome(FALSE, f, r) : r \in PairStates(RdPair) \ {{}}}
    \cup {Outcome(FALSE, f \cup {CO_FL_ERROR}, {})}

\* conn_si_send_proxy(conn, CO_FL_SI_SEND_PROXY): done and its bit cleared; or
\* not done and waiting for room to write; or not done and failed
SendProxyOutcomes(f, w) ==
    {Outcome(TRUE, f \ {CO_FL_SI_SEND_PROXY}, w)}
    \cup {Outcome(FALSE, f, s) : s \in PairStates(WrPair) \ {{}}}
    \cup {Outcome(FALSE, f \cup {CO_FL_ERROR}, {})}

\* __conn_sock_stop_both(conn): stop read and write polling
SockStopBoth(w) == w \ {CO_FL_CURR_RD_ENA, CO_FL_CURR_WR_ENA}

\* conn_session_complete(conn, CO_FL_INIT_SESS) < 0 or not: clears the bit;
\* done = FALSE is the negative return, the connection being destroyed
SessionCompleteOutcomes(f, w) ==
    {Outcome(TRUE, f \ {CO_FL_INIT_SESS}, w),
     Outcome(FALSE, f \ {CO_FL_INIT_SESS}, w)}

\* conn->app_cb->recv(conn) (pair = RdPair) and ->send(conn) (pair = WrPair):
\* adjust the interest of their direction, or latch ERROR, or re-raise a
\* handshake; n is the number of re-raises the cycle has seen
AppOutcomes(f, w, n, pair) ==
    {Outcome(TRUE, f, (w \ pair) \cup x) : x \in PairStates(pair)}
    \cup {Outcome(TRUE, f \cup {CO_FL_ERROR}, w)}
    \cup {Outcome(TRUE, f \cup {k}, w) : k \in IF n < MaxReraise THEN CO_FL_HANDSHAKE ELSE {}}

\* tcp_connect_probe(conn): established and WAIT_L4_CONN cleared; or not
\* established, still waiting or failed
ConnectProbeOutcomes(f, w) ==
    {Outcome(TRUE, f \ {CO_FL_WAIT_L4_CONN}, w),
     Outcome(FALSE, f, w),
     Outcome(FALSE, f \cup {CO_FL_ERROR}, {})}

----------------------------------------------------------------------------
(* The steps of conn_fd_handler *)

\* the edges that make the handler call app_cb->recv and app_cb->send
RecvEvents == {FD_POLL_IN, FD_POLL_HUP, FD_POLL_ERR}
SendEvents == {FD_POLL_OUT, FD_POLL_ERR}

\* JustEstablished that forgets to look at WAIT_L4_CONN
JustEstablishedNoL4(f) ==
    f \cap {CO_FL_WAIT_L6_CONN, CO_FL_CONNECTED} = {}

\* "Last check, verify if the connection just established"
JustEstablished(f) ==
    f \cap {CO_FL_WAIT_L4_CONN, CO_FL_WAIT_L6_CONN, CO_FL_CONNECTED} = {}
\* SetConnected that forgets to look at WAIT_L6_CONN
SetConnectedNoL6(f) ==
    IF f \cap {CO_FL_WAIT_L4_CONN, CO_FL_CONNECTED} = {} THEN f \cup {CO_FL_CONNECTED} ELSE f

\* SetConnected that waits for a cycle without ERROR and without handshake
SetConnectedWhenClean(f) ==
    IF JustEstablished(f) /\ CO_FL_ERROR \notin f /\ f \cap CO_FL_HANDSHAKE = {}
       THEN f \cup {CO_FL_CONNECTED} ELSE f

\* the established edge
SetConnected(f) == IF JustEstablished(f) THEN f \cup {CO_FL_CONNECTED} ELSE f

\* ClearEvents that forgets FD_POLL_ERR
ClearEventsNoErr(e) == e \ {FD_POLL_IN, FD_POLL_OUT, FD_POLL_HUP}

\* "remove the events before leaving"
ClearEvents(e) == e \ {FD_POLL_IN, FD_POLL_OUT, FD_POLL_HUP, FD_POLL_ERR}

\* EmbryonicAbort testing ERROR alone
EmbryonicAbortOnError(f) == CO_FL_ERROR \in f

\* "we may need to release the connection which is an embryonic session"
EmbryonicAbort(f) == {CO_FL_ERROR, CO_FL_INIT_SESS} \subseteq f

\* AfterCallback without the test of ERROR
AfterCallbackNoError(f, next) ==
    IF f \cap CO_FL_HANDSHAKE # {} THEN "process_handshake" ELSE next

\* AfterCallback without the test of HANDSHAKE
AfterCallbackNoHandshake(f, next) ==
    IF CO_FL_ERROR \in f THEN "leave" ELSE next

\* where the data phase goes after a callback: leave on ERROR, back to the
\* handshake when it was re-raised, else on to <next>
AfterCallback(f, next) ==
    IF CO_FL_ERROR \in f THEN "leave"
    ELSE IF f \cap CO_FL_HANDSHAKE # {} THEN "process_handshake"
    ELSE next

\* the event masks the poller reports: nothing, readable with hang-up,
\* writable, error
EvSets == {{}, {FD_POLL_IN, FD_POLL_HUP}, {FD_POLL_OUT}, {FD_POLL_ERR}}

\* the event loop found fd ready and is about to call conn_fd_handler(fd)
fd_event ==
    /\ pc = "idle"
    /\ \E e \in EvSets : ev' = e
    /\ pc' = "called"
    /\ log' = << >>
    /\ reraise' = 0
    /\ UNCHANGED <<owner, flags, want, ret>>
    /\ UNCHANGED pollVars

\* an external timer latches ERROR on the connection before the handler runs
timer_error ==
    /\ pc = "called"
    /\ owner
    /\ CO_FL_ERROR \notin flags
    /\ flags' = flags \cup {CO_FL_ERROR}
    /\ UNCHANGED <<owner, ev, want, pc, ret, log, reraise>>
    /\ UNCHANGED pollVars

\* the descriptor is closed between the event and the handler's run
fd_close ==
    /\ pc = "called"
    /\ owner
    /\ owner' = FALSE
    /\ UNCHANGED <<flags, ev, want, pc, ret, log, reraise>>
    /\ UNCHANGED pollVars

\* handler_entry without the test of the owner
handler_entryNoOwnerCheck ==
    /\ pc = "called"
    /\ pc' = "process_handshake"
    /\ ret' = "running"
    /\ UNCHANGED <<owner, flags, ev, want, log, reraise>>
    /\ UNCHANGED pollVars

\* conn = fdtab[fd].owner; if (!conn) return 0;
handler_entry ==
    /\ pc = "called"
    /\ IF owner
          THEN pc' = "process_handshake" /\ ret' = "running"
          ELSE pc' = "idle" /\ ret' = "unowned"
    /\ UNCHANGED <<owner, flags, ev, want, log, reraise>>
    /\ UNCHANGED pollVars

\* process_handshake without the loop: straight on to the data phase
process_handshakeNoLoop ==
    /\ pc = "process_handshake"
    /\ pc' = "stop_both"
    /\ UNCHANGED <<owner, flags, ev, want, ret, log, reraise>>
    /\ UNCHANGED pollVars

\* while (conn->flags & CO_FL_HANDSHAKE) { if (conn->flags & CO_FL_ERROR) goto leave;
process_handshake ==
    /\ pc = "process_handshake"
    /\ IF flags \cap CO_FL_HANDSHAKE = {}
          THEN pc' = "stop_both" /\ log' = log
          ELSE IF CO_FL_ERROR \in flags
                  THEN pc' = "leave" /\ log' = Append(log, "hs_abandon")
                  ELSE pc' = "accept_proxy" /\ log' = log
    /\ UNCHANGED <<owner, flags, ev, want, ret, reraise>>
    /\ UNCHANGED pollVars

\* accept_proxy going on to conn_si_send_proxy after a not-done return
accept_proxyContinue ==
    /\ pc = "accept_proxy"
    /\ IF CO_FL_ACCEPT_PROXY \in flags
          THEN \E o \in RecvProxyOutcomes(flags, want) :
                  /\ flags' = o.flags
                  /\ want' = o.want
                  /\ log' = IF o.done THEN Append(log, "conn_recv_proxy")
                                      ELSE log \o <<"conn_recv_proxy", "hs_abandon">>
          ELSE UNCHANGED <<flags, want, log>>
    /\ pc' = "send_proxy"
    /\ UNCHANGED <<owner, ev, ret, reraise>>
    /\ UNCHANGED pollVars

\* if (conn->flags & CO_FL_ACCEPT_PROXY) if (!conn_recv_proxy(...)) goto leave;
accept_proxy ==
    /\ pc = "accept_proxy"
    /\ IF CO_FL_ACCEPT_PROXY \in flags
          THEN \E o \in RecvProxyOutcomes(flags, want) :
                  /\ flags' = o.flags
                  /\ want' = o.want
                  /\ IF o.done
                        THEN pc' = "send_proxy" /\ log' = Append(log, "conn_recv_proxy")
                        ELSE pc' = "leave" /\ log' = log \o <<"conn_recv_proxy", "hs_abandon">>
          ELSE pc' = "send_proxy" /\ UNCHANGED <<flags, want, log>>
    /\ UNCHANGED <<owner, ev, ret, reraise>>
    /\ UNCHANGED pollVars

\* send_proxy going round the loop again after a not-done return
send_proxyRetry ==
    /\ pc = "send_proxy"
    /\ IF CO_FL_SI_SEND_PROXY \in flags
          THEN \E o \in SendProxyOutcomes(flags, want) :
                  /\ flags' = o.flags
                  /\ want' = o.want
                  /\ log' = Append(log, "conn_si_send_proxy")
          ELSE UNCHANGED <<flags, want, log>>
    /\ pc' = "process_handshake"
    /\ UNCHANGED <<owner, ev, ret, reraise>>
    /\ UNCHANGED pollVars

\* if (conn->flags & CO_FL_SI_SEND_PROXY) if (!conn_si_send_proxy(...)) goto leave;
send_proxy ==
    /\ pc = "send_proxy"
    /\ IF CO_FL_SI_SEND_PROXY \in flags
          THEN \E o \in SendProxyOutcomes(flags, want) :
                  /\ flags' = o.flags
                  /\ want' = o.want
                  /\ IF o.done
                        THEN pc' = "process_handshake" /\ log' = Append(log, "conn_si_send_proxy")
                        ELSE pc' = "leave" /\ log' = log \o <<"conn_si_send_proxy", "hs_abandon">>
          ELSE pc' = "process_handshake" /\ UNCHANGED <<flags, want, log>>
    /\ UNCHANGED <<owner, ev, ret, reraise>>
    /\ UNCHANGED pollVars

\* if (!(conn->flags & CO_FL_POLL_SOCK)) __conn_sock_stop_both(conn);
stop_both ==
    /\ pc = "stop_both"
    /\ IF CO_FL_POLL_SOCK \notin flags
          THEN want' = SockStopBoth(want) /\ log' = Append(log, "conn_sock_stop_both")
          ELSE UNCHANGED <<want, log>>
    /\ pc' = "init_sess"
    /\ UNCHANGED <<owner, flags, ev, ret, reraise>>
    /\ UNCHANGED pollVars

\* init_sess going on to the data phase after a negative return
init_sessIgnoreFailure ==
    /\ pc = "init_sess"
    /\ IF CO_FL_INIT_SESS \in flags
          THEN \E o \in SessionCompleteOutcomes(flags, want) :
                  /\ flags' = o.flags
                  /\ log' = Append(log, "conn_session_complete")
                  /\ owner' = o.done
          ELSE UNCHANGED <<owner, flags, log>>
    /\ pc' = "recv"
    /\ UNCHANGED <<ev, want, ret, reraise>>
    /\ UNCHANGED pollVars

\* if ((conn->flags & CO_FL_INIT_SESS) && conn_session_complete(...) < 0) return 0;
init_sess ==
    /\ pc = "init_sess"
    /\ IF CO_FL_INIT_SESS \in flags
          THEN \E o \in SessionCompleteOutcomes(flags, want) :
                  /\ flags' = o.flags
                  /\ log' = Append(log, "conn_session_complete")
                  /\ IF o.done
                        THEN pc' = "recv" /\ UNCHANGED <<owner, ret>>
                        ELSE pc' = "idle" /\ owner' = FALSE /\ ret' = "session_failed"
          ELSE pc' = "recv" /\ UNCHANGED <<owner, flags, ret, log>>
    /\ UNCHANGED <<ev, want, reraise>>
    /\ UNCHANGED pollVars

\* if (fdtab[fd].ev & (IN|HUP|ERR)) recv(conn); then the ERROR and HANDSHAKE checks
recv ==
    /\ pc = "recv"
    /\ IF ev \cap RecvEvents # {}
          THEN \E o \in AppOutcomes(flags, want, reraise, RdPair) :
                  /\ flags' = o.flags
                  /\ want' = o.want
                  /\ reraise' = IF o.flags \cap CO_FL_HANDSHAKE # {} THEN reraise + 1 ELSE reraise
                  /\ log' = Append(log, "recv")
                  /\ pc' = AfterCallback(o.flags, "send")
          ELSE pc' = AfterCallback(flags, "send") /\ UNCHANGED <<flags, want, reraise, log>>
    /\ UNCHANGED <<owner, ev, ret>>
    /\ UNCHANGED pollVars

\* if (fdtab[fd].ev & (OUT|ERR)) send(conn); then the ERROR and HANDSHAKE checks
send ==
    /\ pc = "send"
    /\ IF ev \cap SendEvents # {}
          THEN \E o \in AppOutcomes(flags, want, reraise, WrPair) :
                  /\ flags' = o.flags
                  /\ want' = o.want
                  /\ reraise' = IF o.flags \cap CO_FL_HANDSHAKE # {} THEN reraise + 1 ELSE reraise
                  /\ log' = Append(log, "send")
                  /\ pc' = AfterCallback(o.flags, "probe")
          ELSE pc' = AfterCallback(flags, "probe") /\ UNCHANGED <<flags, want, reraise, log>>
    /\ UNCHANGED <<owner, ev, ret>>
    /\ UNCHANGED pollVars

\* if (conn->flags & CO_FL_WAIT_L4_CONN) if (!tcp_connect_probe(conn)) goto leave;
probe ==
    /\ pc = "probe"
    /\ IF CO_FL_WAIT_L4_CONN \in flags
          THEN \E o \in ConnectProbeOutcomes(flags, want) :
                  /\ flags' = o.flags
                  /\ want' = o.want
                  /\ log' = Append(log, "tcp_connect_probe")
          ELSE UNCHANGED <<flags, want, log>>
    /\ pc' = "leave"
    /\ UNCHANGED <<owner, ev, ret, reraise>>
    /\ UNCHANGED pollVars

\* leave: the embryonic abort, else if (conn->flags & CO_FL_NOTIFY_SI) conn_notify_si(conn);
leave ==
    /\ pc = "leave"
    /\ IF EmbryonicAbort(flags)
          THEN /\ flags' = (flags \cup {CO_FL_ERROR}) \ {CO_FL_INIT_SESS}
               /\ log' = Append(log, "conn_session_complete")
               /\ owner' = FALSE
               /\ pc' = "idle"
               /\ ret' = "abort"
          ELSE /\ log' = IF CO_FL_NOTIFY_SI \in flags THEN Append(log, "conn_notify_si") ELSE log
               /\ pc' = "established"
               /\ UNCHANGED <<owner, flags, ret>>
    /\ UNCHANGED <<ev, want, reraise>>
    /\ UNCHANGED pollVars

\* the established edge, then fdtab[fd].ev &= ~(IN|OUT|HUP|ERR)
established ==
    /\ pc = "established"
    /\ flags' = SetConnected(flags)
    /\ log' = (IF SetConnected(flags) # flags THEN Append(log, "set_connected") ELSE log)
                  \o <<"clear_events">>
    /\ ev' = ClearEvents(ev)
    /\ pc' = "commit"
    /\ UNCHANGED <<owner, want, ret, reraise>>
    /\ UNCHANGED pollVars

\* conn_cond_update_polling(conn); return 0;  The reconciler runs on the
\* requested interest; its calls are kept in the cycle's log.
commit ==
    /\ pc = "commit"
    /\ flags' = SetPollingFlags(flags, want) /\ UNCHANGED pollVars
    /\ log' = (log \o <<"conn_cond_update_polling">>) \o SetPollingCalls(flags, want)
    /\ pc' = "idle"
    /\ ret' = "normal"
    /\ UNCHANGED <<owner, ev, want, reraise>>

\* the flags an acceptor or a connector creates a connection with: a bare
\* connection, an embryonic incoming session (without and with a stream
\* interface to notify), an established one, and outgoing ones waiting for
\* the L4 and/or L6 connection ...
InitProfiles == {{}, {CO_FL_INIT_SESS}, {CO_FL_INIT_SESS, CO_FL_NOTIFY_SI}, {CO_FL_NOTIFY_SI},
                 {CO_FL_WAIT_L4_CONN, CO_FL_NOTIFY_SI},
                 {CO_FL_WAIT_L4_CONN, CO_FL_WAIT_L6_CONN, CO_FL_NOTIFY_SI},
                 {CO_FL_WAIT_L6_CONN, CO_FL_NOTIFY_SI}}
\* ... each with any set of pending handshakes, with or without POLL_SOCK
InitFlags == {(h \cup s) \cup p : h \in SUBSET CO_FL_HANDSHAKE, s \in InitProfiles,
                                  p \in SUBSET {CO_FL_POLL_SOCK}}

Init ==
    /\ owner = TRUE
    /\ flags \in InitFlags
    /\ ev = {}
    /\ want = {}
    /\ pc = "idle"
    /\ ret = "none"
    /\ log = << >>
    /\ reraise = 0
    /\ lastOld = flags
    /\ lastNew = {}
    /\ lastCalls = << >>
    /\ rdNet = 0
    /\ wrNet = 0
    /\ rdEnaNet = 0
    /\ wrEnaNet = 0

Next ==
    \/ fd_event
    \/ timer_error
    \/ fd_close
    \/ handler_entry
    \/ process_handshake
    \/ accept_proxy
    \/ send_proxy
    \/ stop_both
    \/ init_sess
    \/ recv
    \/ send
    \/ probe
    \/ leave
    \/ established
    \/ commit

Spec == Init /\ [][Next]_vars

\* the statements of conn_fd_handler, from its entry to its return
HandlerStep ==
    \/ handler_entry
    \/ process_handshake
    \/ accept_proxy
    \/ send_proxy
    \/ stop_both
    \/ init_sess
    \/ recv
    \/ send
    \/ probe
    \/ leave
    \/ established
    \/ commit

\* the connections whose cycles are followed to their end: an embryonic
\* incoming session and an outgoing connection waiting for L4, each with any
\* set of pending handshakes
LiveProfiles == {{CO_FL_INIT_SESS, CO_FL_NOTIFY_SI}, {CO_FL_WAIT_L4_CONN, CO_FL_NOTIFY_SI}}
InitLive ==
    /\ Init
    /\ \E h \in SUBSET CO_FL_HANDSHAKE, s \in LiveProfiles : flags = h \cup s

\* the handler runs to completion once called: no statement blocks and every
\* callback returns
SpecLive == InitLive /\ [][Next]_vars /\ WF_vars(HandlerStep)

----------------------------------------------------------------------------
(* Properties of the reconciler, checked under SpecPoll *)

\* the sequence <calls> holds the call <c>
Has(calls, c) == \E i \in 1..Len(calls) : calls[i] = c

ReadCalls == {"fd_want_recv", "fd_poll_recv", "fd_stop_recv"}
WriteCalls == {"fd_want_send", "fd_poll_send", "fd_stop_send"}

\* C1, as stated: over any sequence of conn_set_polling calls started with
\* nothing registered, #fd_want_recv + #fd_poll_recv - #fd_stop_recv is 1 if
\* and only if CURR_RD_ENA is set, and likewise for the send direction.
C1_NetCallsAsStated ==
    /\ (rdNet = 1) <=> (CO_FL_CURR_RD_ENA \in flags)
    /\ (wrNet = 1) <=> (CO_FL_CURR_WR_ENA \in flags)

\* C1, amended: counting fd_want_recv and only those fd_poll_recv that were
\* issued while CURR_RD_ENA was clear, minus fd_stop_recv, gives 1 when
\* CURR_RD_ENA is set and 0 when it is clear; fd_poll_recv issued on 10 -> 11
\* only adds to the plain count. Likewise for the send direction.
C1_EnableBalance ==
    /\ rdEnaNet = (IF CO_FL_CURR_RD_ENA \in flags THEN 1 ELSE 0)
    /\ wrEnaNet = (IF CO_FL_CURR_WR_ENA \in flags THEN 1 ELSE 0)
    /\ rdNet >= rdEnaNet
    /\ wrNet >= wrEnaNet

\* read interest was enabled, then upgraded from want to poll: two calls
\* counted, one registration
C1_Witness ==
    /\ CO_FL_CURR_RD_ENA \in flags
    /\ rdNet = 2
    /\ rdEnaNet = 1
    /\ lastOld \cap RdPair = {CO_FL_CURR_RD_ENA}
    /\ lastCalls = <<"fd_poll_recv">>

\* C3: conn_set_polling with <new> equal to the current CURR bits issues no
\* call, and a second conn_set_polling(c, X) right after a first one issues
\* no call and changes no flag, whatever X and the state before were.
C3_Idempotent ==
    /\ SetPollingCalls(flags, flags) = << >>
    /\ SetPollingCalls(flags, lastNew) = << >>
    /\ SetPollingFlags(flags, lastNew) = flags

\* the second of two calls with X = all four bits, the first having issued
\* fd_poll_recv and fd_poll_send
C3_Witness ==
    /\ lastNew \cap CurrMask = CurrMask
    /\ lastOld \cap CurrMask = CurrMask
    /\ lastCalls = << >>
    /\ rdNet = 1
    /\ wrNet = 1

\* C4, as stated: fd_poll_recv is issued exactly when the read pair is 11 in
\* <new> and not 11 in <old>, once, and then neither fd_want_recv nor
\* fd_stop_recv is; from read pair 10 in <old>, whatever its write pair, with
\* new = {RD_ENA, RD_POL} the one call issued is fd_poll_recv, no send-side
\* call is issued and CURR_RD_POL is set afterwards. Symmetric for fd_poll_send.
C4_PollAsStated ==
    LET rdTo11 == RdPair \subseteq lastNew /\ ~(RdPair \subseteq lastOld)
        wrTo11 == WrPair \subseteq lastNew /\ ~(WrPair \subseteq lastOld)
    IN  /\ Has(lastCalls, "fd_poll_recv") <=> rdTo11
        /\ Has(lastCalls, "fd_poll_send") <=> wrTo11
        /\ rdTo11 => CountOf(lastCalls, ReadCalls) = 1
        /\ wrTo11 => CountOf(lastCalls, WriteCalls) = 1
        /\ (lastOld \cap RdPair = {CO_FL_CURR_RD_ENA} /\ lastNew \cap CurrMask = RdPair)
              => (lastCalls = <<"fd_poll_recv">> /\ CO_FL_CURR_RD_POL \in flags)
        /\ (lastOld \cap WrPair = {CO_FL_CURR_WR_ENA} /\ lastNew \cap CurrMask = WrPair)
              => (lastCalls = <<"fd_poll_send">> /\ CO_FL_CURR_WR_POL \in flags)

\* C4, amended: as stated, the example holding when RD_ENA is the only CURR
\* bit set in <old>: with WR_ENA also set in <old>, new = {RD_ENA, RD_POL}
\* makes the send side issue fd_stop_send.
C4_PollOnTransitionTo11 ==
    LET rdTo11 == RdPair \subseteq lastNew /\ ~(RdPair \subseteq lastOld)
        wrTo11 == WrPair \subseteq lastNew /\ ~(WrPair \subseteq lastOld)
    IN  /\ Has(lastCalls, "fd_poll_recv") <=> rdTo11
        /\ Has(lastCalls, "fd_poll_send") <=> wrTo11
        /\ rdTo11 => CountOf(lastCalls, ReadCalls) = 1
        /\ wrTo11 => CountOf(lastCalls, WriteCalls) = 1
        /\ (lastOld \cap CurrMask = {CO_FL_CURR_RD_ENA} /\ lastNew \cap CurrMask = RdPair)
              => (lastCalls = <<"fd_poll_recv">> /\ CO_FL_CURR_RD_POL \in flags)
        /\ (lastOld \cap CurrMask = {CO_FL_CURR_WR_ENA} /\ lastNew \cap CurrMask = WrPair)
              => (lastCalls = <<"fd_poll_send">> /\ CO_FL_CURR_WR_POL \in flags)
        /\ (CO_FL_CURR_WR_ENA \in lastOld /\ lastNew \cap CurrMask = RdPair)
              => Has(lastCalls, "fd_stop_send")
        /\ (CO_FL_CURR_RD_ENA \in lastOld /\ lastNew \cap CurrMask = WrPair)
              => Has(lastCalls, "fd_stop_recv")

\* read pair 10, new = {RD_ENA, RD_POL}: one fd_poll_recv, nothing else
C4_Witness ==
    /\ lastOld \cap CurrMask = {CO_FL_CURR_RD_ENA}
    /\ lastNew \cap CurrMask = RdPair
    /\ lastCalls = <<"fd_poll_recv">>
    /\ flags \cap CurrMask = RdPair

\* C5, as stated: fd_want_recv is issued whenever RD_ENA goes 0 -> 1 and
\* RD_POL is not newly set, also when RD_POL was already 1 in <old>;
\* likewise fd_want_send.
C5_WantAsStated ==
    /\ (/\ CO_FL_CURR_RD_ENA \notin lastOld /\ CO_FL_CURR_RD_ENA \in lastNew
        /\ ~(CO_FL_CURR_RD_POL \notin lastOld /\ CO_FL_CURR_RD_POL \in lastNew))
           => Has(lastCalls, "fd_want_recv")
    /\ (/\ CO_FL_CURR_WR_ENA \notin lastOld /\ CO_FL_CURR_WR_ENA \in lastNew
        /\ ~(CO_FL_CURR_WR_POL \notin lastOld /\ CO_FL_CURR_WR_POL \in lastNew))
           => Has(lastCalls, "fd_want_send")

\* C5, amended: fd_want_recv is issued exactly when RD_ENA goes 0 -> 1 and
\* RD_POL is clear in <new>; when RD_ENA goes 0 -> 1 with RD_POL set in
\* <new>, newly or already 1 in <old>, fd_poll_recv is issued instead.
\* Likewise fd_want_send.
C5_WantOnEnableWithoutPol ==
    LET rdUp == CO_FL_CURR_RD_ENA \notin lastOld /\ CO_FL_CURR_RD_ENA \in lastNew
        wrUp == CO_FL_CURR_WR_ENA \notin lastOld /\ CO_FL_CURR_WR_ENA \in lastNew
    IN  /\ Has(lastCalls, "fd_want_recv") <=> (rdUp /\ CO_FL_CURR_RD_POL \notin lastNew)
        /\ Has(lastCalls, "fd_want_send") <=> (wrUp /\ CO_FL_CURR_WR_POL \notin lastNew)
        /\ (rdUp /\ CO_FL_CURR_RD_POL \in lastNew) => Has(lastCalls, "fd_poll_recv")
        /\ (wrUp /\ CO_FL_CURR_WR_POL \in lastNew) => Has(lastCalls, "fd_poll_send")

\* RD_POL already 1 in <old>, RD_ENA 0 -> 1, RD_POL clear in <new>: fd_want_recv
C5_Witness ==
    /\ lastOld \cap RdPair = {CO_FL_CURR_RD_POL}
    /\ lastNew \cap RdPair = {CO_FL_CURR_RD_ENA}
    /\ Has(lastCalls, "fd_want_recv")

\* C6: fd_stop_recv is issued exactly when RD_ENA is 1 in <old> and 0 in
\* <new>, whatever the RD_POL bits; no read-side call is issued when neither
\* that edge, the 0 -> 1 edge of RD_ENA nor the transition to 11 occurs; at
\* most one call is issued per direction. Symmetric for the send direction.
C6_StopOnDisable ==
    LET rdDown == CO_FL_CURR_RD_ENA \in lastOld /\ CO_FL_CURR_RD_ENA \notin lastNew
        rdUp   == CO_FL_CURR_RD_ENA \notin lastOld /\ CO_FL_CURR_RD_ENA \in lastNew
        rdTo11 == RdPair \subseteq lastNew /\ ~(RdPair \subseteq lastOld)
        wrDown == CO_FL_CURR_WR_ENA \in lastOld /\ CO_FL_CURR_WR_ENA \notin lastNew
        wrUp   == CO_FL_CURR_WR_ENA \notin lastOld /\ CO_FL_CURR_WR_ENA \in lastNew
        wrTo11 == WrPair \subseteq lastNew /\ ~(WrPair \subseteq lastOld)
    IN  /\ Has(lastCalls, "fd_stop_recv") <=> rdDown
        /\ Has(lastCalls, "fd_stop_send") <=> wrDown
        /\ ~(rdDown \/ rdUp \/ rdTo11) => CountOf(lastCalls, ReadCalls) = 0
        /\ ~(wrDown \/ wrUp \/ wrTo11) => CountOf(lastCalls, WriteCalls) = 0
        /\ CountOf(lastCalls, ReadCalls) <= 1
        /\ CountOf(lastCalls, WriteCalls) <= 1
        /\ Len(lastCalls) = CountOf(lastCalls, ReadCalls) + CountOf(lastCalls, WriteCalls)

\* read pair 11 -> 01: RD_POL stays set and fd_stop_recv is still issued
C6_Witness ==
    /\ RdPair \subseteq lastOld
    /\ lastNew \cap RdPair = {CO_FL_CURR_RD_POL}
    /\ Has(lastCalls, "fd_stop_recv")

\* C7: after conn_set_polling(c, new) the four CURR bits of c->flags are
\* those of <new>, every other bit of c->flags is as before, and the bits of
\* <new> outside the four change neither the flags nor the calls.
C7_CommitFrame ==
    /\ flags \cap CurrMask = lastNew \cap CurrMask
    /\ flags \ CurrMask = lastOld \ CurrMask
    /\ flags = SetPollingFlags(lastOld, lastNew \cap CurrMask)
    /\ lastCalls = SetPollingCalls(lastOld, lastNew \cap CurrMask)

\* a call whose <new> carries ERROR and the other foreign bits, on flags
\* that hold none of them, and that changes the CURR bits
C7_Witness ==
    /\ lastNew \ CurrMask = AllFlags \ CurrMask
    /\ flags \ CurrMask = {}
    /\ lastOld \cap CurrMask # lastNew \cap CurrMask
    /\ lastCalls # << >>

----------------------------------------------------------------------------
(* Properties of the readiness handler, checked under Spec *)

\* an invocation of conn_fd_handler has returned
Returned == pc = "idle" /\ ret # "none"

\* the calls that register a wake-up
WakeCalls == {"fd_want_recv", "fd_want_send", "fd_poll_recv", "fd_poll_send"}

\* C2, as stated: after any invocation of conn_fd_handler(fd) returns,
\* whatever path it took, FD_POLL_IN, FD_POLL_OUT, FD_POLL_HUP and
\* FD_POLL_ERR are clear in fdtab[fd].ev.
C2_EventsClearedAsStated == Returned => ev \cap PollBits = {}

\* C2, amended: the four bits are clear after every invocation that returns
\* at the end of the leave path; the handler changes fdtab[fd].ev at no other
\* place, and an invocation that returns early (no owner, session completion
\* failed, embryonic abort) has neither cleared the events nor committed the
\* polling.
C2_EventsClearedOnNormalReturn ==
    /\ []((Returned /\ ret = "normal") => ev \cap PollBits = {})
    /\ []((Returned /\ ret # "normal")
            => (~Has(log, "clear_events") /\ ~Has(log, "conn_cond_update_polling")))
    /\ [][(ev' # ev) => (pc = "idle" \/ pc = "established")]_vars

\* a cycle entered with events latched that ran recv and returned normally
C2_Witness ==
    /\ Returned
    /\ ret = "normal"
    /\ Has(log, "recv")
    /\ ev = {}

\* C8: CO_FL_ERROR is monotonic: no step of conn_fd_handler, of
\* conn_set_polling or of the callbacks clears it once it is set.
C8_ErrorMonotonic == [][(CO_FL_ERROR \in flags) => (CO_FL_ERROR \in flags')]_vars

\* a cycle that ended with ERROR latched went through the polling commit
C8_Witness ==
    /\ Returned
    /\ ret = "normal"
    /\ CO_FL_ERROR \in flags
    /\ Has(log, "conn_cond_update_polling")
    /\ flags \cap CurrMask # {}

\* C9, as stated, its part on when the bit is set: a cycle run on a
\* connection with both WAIT_L4_CONN and WAIT_L6_CONN clear ends with
\* CO_FL_CONNECTED recorded.
C9_ConnectedAsStated ==
    (Returned /\ ret # "unowned" /\ flags \cap {CO_FL_WAIT_L4_CONN, CO_FL_WAIT_L6_CONN} = {})
        => CO_FL_CONNECTED \in flags

\* C9, amended: CO_FL_CONNECTED is never cleared, so it goes from clear to
\* set at most once; it is set only by the established-edge step, when both
\* WAIT bits are clear; and every cycle that returns at the end of the leave
\* path with both WAIT bits clear has it set. A cycle that ends by destroying
\* the connection (session completion failed, embryonic abort) returns
\* before that step.
C9_ConnectedOnce ==
    /\ [][(CO_FL_CONNECTED \in flags) => (CO_FL_CONNECTED \in flags')]_vars
    /\ [][(CO_FL_CONNECTED \notin flags /\ CO_FL_CONNECTED \in flags')
            => (pc = "established"
                /\ flags \cap {CO_FL_WAIT_L4_CONN, CO_FL_WAIT_L6_CONN} = {})]_vars
    /\ []((Returned /\ ret = "normal"
           /\ flags \cap {CO_FL_WAIT_L4_CONN, CO_FL_WAIT_L6_CONN} = {})
            => CO_FL_CONNECTED \in flags)

\* the cycle whose connect probe cleared WAIT_L4_CONN recorded CONNECTED,
\* WAIT_L6_CONN having been pending on this connection
C9_Witness ==
    /\ Returned
    /\ ret = "normal"
    /\ Has(log, "tcp_connect_probe")
    /\ Has(log, "set_connected")
    /\ CO_FL_CONNECTED \in flags

\* C10, as stated: a cycle in which the handshake loop is left with
\* CO_FL_HANDSHAKE still set issues at least one of fd_want_recv,
\* fd_want_send, fd_poll_recv, fd_poll_send.
C10_WakeCallAsStated ==
    (Returned /\ Has(log, "hs_abandon")) => CountOf(log, WakeCalls) >= 1

\* C10, amended: a cycle in which the handshake loop is left with
\* CO_FL_HANDSHAKE still set keeps the handshake pending and, unless it ends
\* on the embryonic abort, commits the requested interest: afterwards the
\* CURR bits are the requested ones, with at least one of CURR_RD_ENA and
\* CURR_WR_ENA when ERROR is not latched. The commit issues one of the four
\* calls exactly when an ENA bit rises or a pair becomes 11, and none when
\* the wake-up was registered before.
C10_HandshakeWakeup ==
    /\ []((Returned /\ Has(log, "hs_abandon"))
            => /\ flags \cap CO_FL_HANDSHAKE # {}
               /\ ret \in {"normal", "abort"}
               /\ ret = "abort" => CountOf(log, WakeCalls \cup ReadCalls \cup WriteCalls) = 0
               /\ ret = "normal" => flags \cap CurrMask = want
               /\ (ret = "normal" /\ CO_FL_ERROR \notin flags)
                     => flags \cap {CO_FL_CURR_RD_ENA, CO_FL_CURR_WR_ENA} # {})
    /\ [][(pc = "commit" /\ Has(log, "hs_abandon"))
            => (CountOf(log', WakeCalls) >= 1
                <=> \/ CO_FL_CURR_RD_ENA \in want \ flags
                    \/ CO_FL_CURR_WR_ENA \in want \ flags
                    \/ (RdPair \subseteq want /\ ~(RdPair \subseteq flags))
                    \/ (WrPair \subseteq want /\ ~(WrPair \subseteq flags)))]_vars

\* a handshake still waiting for bytes, its read interest registered by an
\* earlier cycle: the cycle returns normally and issues no call at all
C10_Witness ==
    /\ Returned
    /\ ret = "normal"
    /\ Has(log, "hs_abandon")
    /\ CO_FL_ERROR \notin flags
    /\ CO_FL_CURR_RD_ENA \in flags
    /\ CountOf(log, WakeCalls \cup ReadCalls \cup WriteCalls) = 0

----------------------------------------------------------------------------
(* Order of the calls of one invocation, checked under Spec *)

SubHandlers == {"conn_recv_proxy", "conn_si_send_proxy"}
AppCalls == {"recv", "send"}
FdCalls == ReadCalls \cup WriteCalls

\* the handler is between its entry and the clearing of the events
InCycle == pc \notin {"idle", "called", "commit"}

\* C11: within one invocation, the app callbacks run only once no handshake
\* is pending any more; in each pass of the data phase recv comes before send
\* (right before it when the events call for both); tcp_connect_probe comes
\* after the send half-step and no callback follows it; conn_notify_si comes
\* before conn_cond_update_polling, which every notifying cycle reaches and
\* after which only the reconciler's fd_* calls happen.
C11_CycleOrder ==
    /\ [](pc \in {"stop_both", "init_sess", "recv", "send", "probe"}
            => flags \cap CO_FL_HANDSHAKE = {})
    /\ [][(pc \in {"recv", "send"} /\ log' # log) => flags \cap CO_FL_HANDSHAKE = {}]_vars
    /\ [](\A i \in 1..Len(log) :
            /\ (log[i] = "send" /\ i < Len(log)) => log[i + 1] # "recv"
            /\ (log[i] = "send" /\ InCycle /\ ev \cap RecvEvents # {})
                  => (i > 1 /\ log[i - 1] = "recv")
            /\ (log[i] = "tcp_connect_probe")
                  => /\ \A j \in (i + 1)..Len(log) : log[j] \notin AppCalls \cup SubHandlers
                     /\ \A j \in 1..Len(log) : log[j] = "tcp_connect_probe" => j = i
                     /\ (InCycle /\ ev \cap SendEvents # {}) => (i > 1 /\ log[i - 1] = "send")
            /\ (log[i] = "conn_notify_si")
                  => \A j \in 1..Len(log) : log[j] = "conn_cond_update_polling" => i < j
            /\ (log[i] = "conn_cond_update_polling")
                  => \A j \in (i + 1)..Len(log) : log[j] \in FdCalls)
    /\ []((Returned /\ Has(log, "conn_notify_si"))
            => (ret = "normal" /\ Has(log, "conn_cond_update_polling")))
    /\ [][(pc = "probe" /\ log' # log) => (pc' = "leave" /\ CO_FL_WAIT_L4_CONN \in flags)]_vars

\* a cycle on an error edge that went through all of it: the PROXY header
\* read, recv, send, the connect probe, the notification and the commit
C11_Witness ==
    /\ Returned
    /\ ret = "normal"
    /\ \E i, j, k, l, m, n \in 1..Len(log) :
          /\ i < j /\ j < k /\ k < l /\ l < m /\ m < n
          /\ log[i] = "conn_recv_proxy"
          /\ log[j] = "recv"
          /\ log[k] = "send"
          /\ log[l] = "tcp_connect_probe"
          /\ log[m] = "conn_notify_si"
          /\ log[n] = "conn_cond_update_polling"

\* the last entry of the non-empty sequence <calls>
Last(calls) == calls[Len(calls)]

\* C12: when fdtab[fd].owner is null, conn_fd_handler(fd) returns at once:
\* it calls no sub-handler, no callback, no session shim and no fd_*
\* operation, and leaves fdtab[fd].ev, the flags and the requested interest
\* as they were; it takes that return in no other case.
C12_UnownedReturn ==
    /\ [][(pc = "called" /\ pc' # "called" /\ ~owner)
            => (/\ pc' = "idle" /\ ret' = "unowned"
                /\ ev' = ev /\ flags' = flags /\ want' = want /\ log' = log)]_vars
    /\ []((Returned /\ ret = "unowned") => (log = << >> /\ ~owner))
    /\ [](~owner => pc \in {"idle", "called"})

\* the fd was closed after the poller latched a readable edge: the handler
\* returned with the edge still in the event slot
C12_Witness ==
    /\ Returned
    /\ ret = "unowned"
    /\ ~owner
    /\ ev = {FD_POLL_IN, FD_POLL_HUP}
    /\ log = << >>

\* C13: a cycle that reaches the leave step with both ERROR and INIT_SESS
\* set calls conn_session_complete and returns without conn_notify_si,
\* without setting CONNECTED and without the polling commit; any other cycle
\* that reaches the leave step calls conn_notify_si exactly once if NOTIFY_SI
\* is set and not at all otherwise.
C13_EmbryonicAbort ==
    /\ [][(pc = "leave" /\ {CO_FL_ERROR, CO_FL_INIT_SESS} \subseteq flags)
            => (/\ pc' = "idle" /\ ret' = "abort"
                /\ log' = Append(log, "conn_session_complete")
                /\ (CO_FL_CONNECTED \in flags') = (CO_FL_CONNECTED \in flags)
                /\ flags' \cap CurrMask = flags \cap CurrMask
                /\ ev' = ev)]_vars
    /\ [][(pc = "leave" /\ ~({CO_FL_ERROR, CO_FL_INIT_SESS} \subseteq flags))
            => (/\ pc' = "established"
                /\ log' = (IF CO_FL_NOTIFY_SI \in flags
                              THEN Append(log, "conn_notify_si") ELSE log))]_vars
    /\ []((Returned /\ ret = "abort")
            => (/\ Last(log) = "conn_session_complete"
                /\ CountOf(log, {"conn_notify_si", "set_connected", "clear_events",
                                 "conn_cond_update_polling"} \cup FdCalls) = 0))
    /\ [](CountOf(log, {"conn_notify_si"}) <= 1)
    /\ []((Returned /\ ret = "normal")
            => (CountOf(log, {"conn_notify_si"}) = 1 <=> CO_FL_NOTIFY_SI \in flags))

\* the PROXY header of an embryonic connection failed to parse: the shim is
\* called from the leave step, and NOTIFY_SI, though set, notifies nobody
C13_Witness ==
    /\ Returned
    /\ ret = "abort"
    /\ CO_FL_NOTIFY_SI \in flags
    /\ CO_FL_CONNECTED \notin flags
    /\ log = <<"conn_recv_proxy", "hs_abandon", "conn_session_complete">>

\* C14: conn_session_complete is called at most once per invocation; the
\* handler destroys the connection only by that call, at the INIT_SESS step
\* or at the embryonic abort, and returns right after it: a destroyed
\* connection is never the subject of a running handler, and its flags and
\* requested interest are never read or written again.
C14_DestroyedOnce ==
    /\ [](CountOf(log, {"conn_session_complete"}) <= 1)
    /\ [][(owner /\ ~owner' /\ pc # "called")
            => (/\ pc \in {"init_sess", "leave"}
                /\ pc' = "idle"
                /\ ret' \in {"session_failed", "abort"}
                /\ log' = Append(log, "conn_session_complete"))]_vars
    /\ [](~owner => pc \in {"idle", "called"})
    /\ [][~owner => (~owner' /\ flags' = flags /\ want' = want /\ ev' \in {ev} \cup EvSets)]_vars
    /\ []((Returned /\ ret \in {"session_failed", "abort"})
            => (~owner /\ Last(log) = "conn_session_complete"))

\* the session constructor failed after the PROXY header was read: the
\* handler returned at once, the latched edge still in the event slot
C14_Witness ==
    /\ Returned
    /\ ret = "session_failed"
    /\ ~owner
    /\ ev # {}
    /\ Has(log, "conn_recv_proxy")
    /\ Last(log) = "conn_session_complete"

\* a sub-handler returned not-done at position <i> of the log
NotDoneAt(i) == i < Len(log) /\ log[i] \in SubHandlers /\ log[i + 1] = "hs_abandon"

\* what the leave path logs when it does not abort
LeaveCalls == {"conn_notify_si", "set_connected", "clear_events",
               "conn_cond_update_polling"} \cup FdCalls

\* C15, as stated: the sub-handlers are tried in the order ACCEPT_PROXY,
\* SI_SEND_PROXY; when conn_recv_proxy returns not-done, conn_si_send_proxy
\* is not invoked in that cycle, and after any not-done return no sub-handler,
\* no session shim, no app callback and no connect probe runs in that cycle.
C15_AbandonAsStated ==
    \A i \in 1..Len(log) :
        /\ (i < Len(log) /\ log[i] = "conn_si_send_proxy") => log[i + 1] # "conn_recv_proxy"
        /\ NotDoneAt(i)
              => /\ \A j \in (i + 2)..Len(log) :
                       log[j] \notin SubHandlers \cup AppCalls
                                     \cup {"conn_session_complete", "tcp_connect_probe"}
                 /\ log[i] = "conn_recv_proxy" => ~Has(log, "conn_si_send_proxy")

\* C15, amended: in each iteration conn_recv_proxy is tried first, then
\* conn_si_send_proxy, each exactly when its kind bit is set; a not-done
\* return sends control straight to the leave step, so that nothing follows
\* it in the cycle but the leave path: no sub-handler (conn_si_send_proxy
\* can only have run before, in a pass that a re-raised handshake followed),
\* no INIT_SESS step, no callback, no probe. The leave step itself calls
\* conn_session_complete when ERROR and INIT_SESS are both set.
C15_HandshakeOrder ==
    /\ [][(pc = "process_handshake" /\ flags \cap CO_FL_HANDSHAKE # {} /\ CO_FL_ERROR \notin flags)
            => pc' = "accept_proxy"]_vars
    /\ [][pc = "accept_proxy"
            => (/\ (log' # log) = (CO_FL_ACCEPT_PROXY \in flags)
                /\ pc' = (IF log' # log /\ Last(log') = "hs_abandon" THEN "leave" ELSE "send_proxy")
                /\ (log' # log) => log'[Len(log) + 1] = "conn_recv_proxy")]_vars
    /\ [][pc = "send_proxy"
            => (/\ (log' # log) = (CO_FL_SI_SEND_PROXY \in flags)
                /\ pc' = (IF log' # log /\ Last(log') = "hs_abandon"
                             THEN "leave" ELSE "process_handshake")
                /\ (log' # log) => log'[Len(log) + 1] = "conn_si_send_proxy")]_vars
    /\ [](\A i \in 1..Len(log) :
            /\ (i < Len(log) /\ log[i] = "conn_si_send_proxy") => log[i + 1] # "conn_recv_proxy"
            /\ NotDoneAt(i)
                  => /\ \A j \in (i + 2)..Len(log) :
                           log[j] \in LeaveCalls \cup {"conn_session_complete"}
                     /\ \A j \in (i + 2)..Len(log) :
                           log[j] = "conn_session_complete"
                              => (j = i + 2 /\ j = Len(log) /\ pc = "idle" /\ ret = "abort"))

\* both PROXY steps pending on an embryonic connection: the header was read,
\* sending ours failed, and the leave step called the session shim
C15_Witness ==
    /\ Returned
    /\ ret = "abort"
    /\ log = <<"conn_recv_proxy", "conn_si_send_proxy", "hs_abandon", "conn_session_complete">>

\* C16: app_cb->send and tcp_connect_probe are never invoked with ERROR
\* latched or a handshake pending, app_cb->recv never with a handshake
\* pending; a callback that latches ERROR sends control to the leave step,
\* so that neither send nor the probe follows a recv that latched it, nor
\* the probe a send that did.
C16_NoCallOnError ==
    /\ [][(pc \in {"send", "probe"} /\ log' # log)
            => (CO_FL_ERROR \notin flags /\ flags \cap CO_FL_HANDSHAKE = {})]_vars
    /\ [][(pc = "recv" /\ log' # log) => flags \cap CO_FL_HANDSHAKE = {}]_vars
    /\ [][(pc \in {"recv", "send"} /\ CO_FL_ERROR \in flags') => pc' = "leave"]_vars
    /\ [](pc \in {"send", "probe"} => (CO_FL_ERROR \notin flags /\ flags \cap CO_FL_HANDSHAKE = {}))
    /\ []((pc = "leave" /\ log # << >> /\ Last(log) = "recv")
            => (CO_FL_ERROR \in flags \/ CO_FL_WAIT_L4_CONN \notin flags
                \/ ev \cap SendEvents = {}))

\* an error edge on a connection still waiting for its L4 connection: recv
\* ran and ERROR is latched, so neither send nor the probe was called
C16_Witness ==
    /\ pc = "leave"
    /\ ev = {FD_POLL_ERR}
    /\ CO_FL_ERROR \in flags
    /\ CO_FL_WAIT_L4_CONN \in flags
    /\ log # << >>
    /\ Last(log) = "recv"

\* the callback logged at <i> re-raised a handshake, and the sub-handler
\* called for it, logged at <i> + 1, completed it
ReraiseDoneAt(i, cb) ==
    /\ i < Len(log)
    /\ log[i] = cb
    /\ log[i + 1] \in SubHandlers
    /\ ~NotDoneAt(i + 1)

\* C17, as stated: when recv re-raises a handshake without latching ERROR,
\* the handler returns to the handshake loop before send; once that
\* handshake has completed in the same cycle, with FD_POLL_OUT or
\* FD_POLL_ERR latched the send half-step is run in that cycle.
C17_SendAfterReraiseAsStated ==
    /\ pc \in {"send", "probe"} => flags \cap CO_FL_HANDSHAKE = {}
    /\ \A i \in 1..Len(log) :
          (ReraiseDoneAt(i, "recv") /\ pc = "leave" /\ ev \cap SendEvents # {})
              => \E j \in (i + 2)..Len(log) : log[j] = "send"

\* C17, amended: a handshake re-raised by recv (by send) without ERROR sends
\* control back to the handshake loop before send (before the probe). Once
\* it has completed, the data phase starts over: the POLL_SOCK and INIT_SESS
\* steps and then recv run again on the same latched events, before send.
\* send runs in that cycle unless the second recv latches ERROR or a further
\* handshake is abandoned.
C17_ReraisedHandshake ==
    /\ [][(pc \in {"recv", "send"} /\ log' # log
           /\ flags' \cap CO_FL_HANDSHAKE # {} /\ CO_FL_ERROR \notin flags')
            => pc' = "process_handshake"]_vars
    /\ [](pc \in {"send", "probe"} => flags \cap CO_FL_HANDSHAKE = {})
    /\ [](\A i \in 1..Len(log) :
            /\ (ReraiseDoneAt(i, "recv") /\ pc = "leave" /\ ev \cap SendEvents # {})
                  => /\ \E j \in (i + 2)..Len(log) : log[j] = "recv"
                     /\ \/ \E j \in (i + 2)..Len(log) : log[j] = "send"
                        \/ CO_FL_ERROR \in flags
                        \/ Has(log, "hs_abandon")
            /\ (ReraiseDoneAt(i, "send") /\ pc = "leave")
                  => /\ \A j \in 1..i : log[j] # "tcp_connect_probe"
                     /\ \/ \E j \in (i + 2)..Len(log) : log[j] = "send"
                        \/ CO_FL_ERROR \in flags
                        \/ Has(log, "hs_abandon"))

\* an error edge: recv re-raised a handshake, the sub-handler completed it,
\* recv ran a second time and then send
C17_Witness ==
    /\ Returned
    /\ ret = "normal"
    /\ \E i, j, k \in 1..Len(log) :
          /\ ReraiseDoneAt(i, "recv")
          /\ i + 1 < j /\ j < k
          /\ log[j] = "recv"
          /\ log[k] = "send"

\* C18: every invocation of conn_fd_handler terminates. The handshake loop
\* goes on only while CO_FL_HANDSHAKE is set, ERROR is clear and the
\* sub-handlers return done; each done return has cleared a kind bit, so an
\* invocation calls at most one sub-handler per kind pending at entry and
\* per re-raise, and once called the handler always returns.
C18_Terminates ==
    /\ [][pc = "process_handshake"
            => pc' = (IF flags \cap CO_FL_HANDSHAKE = {} THEN "stop_both"
                      ELSE IF CO_FL_ERROR \in flags THEN "leave"
                      ELSE "accept_proxy")]_vars
    /\ [][(pc \in {"accept_proxy", "send_proxy"} /\ log' # log)
            => \/ pc' = "leave" /\ Last(log') = "hs_abandon"
               \/ /\ pc' # "leave"
                  /\ Cardinality(flags' \cap CO_FL_HANDSHAKE)
                        = Cardinality(flags \cap CO_FL_HANDSHAKE) - 1]_vars
    /\ [](reraise <= MaxReraise)
    /\ [](CountOf(log, SubHandlers) <= Cardinality(CO_FL_HANDSHAKE) + reraise)
    /\ [](CountOf(log, AppCalls) <= 2 * (1 + reraise))
    /\ (pc = "called") ~> Returned

\* an invocation that went twice through the handshake loop, a callback
\* having re-raised a handshake, and returned
C18_Witness ==
    /\ Returned
    /\ ret = "normal"
    /\ reraise = MaxReraise
    /\ CountOf(log, SubHandlers) >= 2
    /\ \E i \in 1..Len(log) : ReraiseDoneAt(i, "send")

\* C19: tcp_connect_probe is called exactly when the send half-step is
\* passed without ERROR and without handshake and WAIT_L4_CONN is still set.
\* A cycle whose probe left WAIT_L4_CONN set does not set CONNECTED; a cycle
\* whose probe cleared it, WAIT_L6_CONN being clear, sets CONNECTED, clears
\* the event slot and commits the polling, the write interest being stopped
\* by fd_stop_send when it was registered and is no longer requested.
C19_ConnectProbe ==
    /\ [][pc = "probe"
            => (/\ (log' # log) = (CO_FL_WAIT_L4_CONN \in flags)
                /\ (log' # log) => log' = Append(log, "tcp_connect_probe")
                /\ CO_FL_ERROR \notin flags
                /\ flags \cap CO_FL_HANDSHAKE = {}
                /\ pc' = "leave")]_vars
    /\ [][(Len(log') > Len(log) /\ Last(log') = "tcp_connect_probe") => pc = "probe"]_vars
    /\ []((Has(log, "tcp_connect_probe") /\ CO_FL_WAIT_L4_CONN \in flags)
            => (~Has(log, "set_connected") /\ CO_FL_CONNECTED \notin flags))
    /\ []((Returned /\ Has(log, "tcp_connect_probe")
           /\ flags \cap {CO_FL_WAIT_L4_CONN, CO_FL_WAIT_L6_CONN} = {})
            => (/\ ret = "normal"
                /\ Has(log, "set_connected")
                /\ CO_FL_CONNECTED \in flags
                /\ ev \cap PollBits = {}
                /\ Has(log, "conn_cond_update_polling")
                /\ flags \cap CurrMask = want))
    /\ [][(pc = "commit" /\ Has(log, "tcp_connect_probe"))
            => (Has(log', "fd_stop_send")
                  <=> (CO_FL_CURR_WR_ENA \in flags /\ CO_FL_CURR_WR_ENA \notin want))]_vars

\* an outgoing connection with write interest registered: on a writable edge
\* send had nothing to write, the probe found the connection established,
\* CONNECTED was set and the commit stopped the write interest
C19_Witness ==
    /\ Returned
    /\ ret = "normal"
    /\ CO_FL_CONNECTED \in flags
    /\ CO_FL_WAIT_L4_CONN \notin flags
    /\ CO_FL_CURR_WR_ENA \notin flags
    /\ \E i \in 1..Len(log) :
          /\ i + 1 < Len(log)
          /\ log[i] = "send"
          /\ log[i + 1] = "tcp_connect_probe"
          /\ \E j \in (i + 2)..Len(log) : log[j] = "set_connected"
    /\ Last(log) = "fd_stop_send"

\* C20: the established edge looks at WAIT_L4_CONN, WAIT_L6_CONN and
\* CONNECTED only: every cycle that passes the leave step without the
\* embryonic abort sets CONNECTED when the three are clear, also with a
\* handshake still pending or ERROR latched, and it does so after its
\* conn_notify_si call, which runs with CONNECTED still clear.
C20_EstablishedEdge ==
    /\ [][pc = "established"
            => flags' = (IF flags \cap {CO_FL_WAIT_L4_CONN, CO_FL_WAIT_L6_CONN,
                                        CO_FL_CONNECTED} = {}
                            THEN flags \cup {CO_FL_CONNECTED} ELSE flags)]_vars
    /\ [][(pc = "leave" /\ pc' # "idle") => (pc' = "established" /\ flags' = flags)]_vars
    /\ [][(CO_FL_CONNECTED \notin flags /\ CO_FL_CONNECTED \in flags')
            => (pc = "established"
                /\ (CO_FL_NOTIFY_SI \in flags
                      => (log # << >> /\ Last(log) = "conn_notify_si")))]_vars
    /\ [](\A i, j \in 1..Len(log) :
            (log[i] = "conn_notify_si" /\ log[j] = "set_connected") => i < j)
    /\ []((Returned /\ ret = "normal"
           /\ flags \cap {CO_FL_WAIT_L4_CONN, CO_FL_WAIT_L6_CONN} = {})
            => CO_FL_CONNECTED \in flags)

\* a cycle abandoned by a failed handshake on a connection that waits for
\* nothing: the upstream was notified, then CONNECTED was set, the handshake
\* still pending and ERROR latched
C20_Witness ==
    /\ Returned
    /\ ret = "normal"
    /\ CO_FL_ERROR \in flags
    /\ flags \cap CO_FL_HANDSHAKE # {}
    /\ CO_FL_CONNECTED \in flags
    /\ \E i \in 1..Len(log) :
          /\ i + 2 < Len(log)
          /\ log[i] = "hs_abandon"
          /\ log[i + 1] = "conn_notify_si"
          /\ log[i + 2] = "set_connected"

====
